---- MODULE Spec2Model ----
(***************************************************************************)
(* CSLPQ::Queue / CSLPQ::KVQueue (include/CSLPQ/Queue.hpp): a lock-free    *)
(* skip-list priority queue.  Every access to shared memory (a load, a     *)
(* store or a CAS on a node's link, the inserting flag, the size counter)  *)
(* is one action; the thread-local computation that follows it, up to the  *)
(* next shared access, belongs to the same action.                         *)
(*                                                                         *)
(* The two classes run the same algorithm; the model carries the data      *)
(* field of KVQueue, and Queue is the projection on the priority.          *)
(***************************************************************************)
EXTENDS Integers, Sequences, FiniteSets, TLC

\* ---------------------------------------------------------------- bounds
L == 1                 \* template parameter L: levels are 0..L
MaxPush == 3           \* Push calls made in one behaviour
MaxPop == 2            \* TryPop calls made in one behaviour (concurrent runs)
MaxPrio == 2           \* priorities are 1..MaxPrio
MaxMaxSize == 1        \* a bounded queue is built with max_size in 1..MaxMaxSize
MaxFairPush == 2       \* Push calls made in one fairly scheduled behaviour
MaxFairPop == 2        \* TryPop calls made in one fairly scheduled behaviour

Threads == {"t1", "t2"}
SeqThread == "t1"

head == 0              \* Queue::head, the sentinel node
Null == -1
Nodes == 1..MaxPush
Levels == 0..L
Ptr == Nodes \cup {head, Null}

\* ------------------------------------------------- std::atomic<uint32_t>
\* A 32-bit unsigned counter is kept as two 16-bit halves <<hi, lo>>, so
\* that the wrap-around of ++ and -- is the machine's.
Half == 65536
U32(n) == <<n \div Half, n % Half>>
\* (the increment left out)
U32Inc_Forgotten(s) == s
U32Inc(s) == IF s[2] + 1 < Half THEN <<s[1], s[2] + 1>>
             ELSE <<(s[1] + 1) % Half, 0>>
U32Dec(s) == IF s[2] > 0 THEN <<s[1], s[2] - 1>>
             ELSE <<(s[1] + Half - 1) % Half, Half - 1>>
\* s >= m, for m < 2^16
U32Geq(s, m) == s[1] > 0 \/ s[2] >= m

VARIABLES
  max_size,      \* Queue::max_size
  this_head,     \* Queue::head: the sentinel, or Null once the queue was moved from
  moved_to,      \* the queue that was move-constructed or move-assigned from this one
  size,          \* Queue::size
  priority,      \* Node::priority, per node
  data,          \* KVNode::data, per node
  nodeLevel,     \* Node::level, per node
  inserting,     \* Node::inserting, per node
  next,          \* next[n][l]: the reference half of node n's link at level l
  mark,          \* mark[n][l]: the mark bit of node n's link at level l
  numNodes,      \* nodes constructed so far (they are 1..numNodes)
  th,            \* per thread: program counter and locals
  pushed,        \* history: <<priority, data>> of every Push call, in call order
  pushRet,       \* history: number of Push calls that returned
  popCalls,      \* history: number of TryPop calls made
  popped,        \* history: [node, priority, data] of every TryPop that returned true
  incs,          \* history: number of size++ performed
  decs,          \* history: number of size-- performed
  snap,          \* history, per thread: nodes linked at level 0 when FindFirst took its node
  gated,         \* history, per thread: the Push was called on a full bounded queue
  solo           \* history: the thread whose FindFirst, in TryPop, has run so far
                 \* with no step of another thread since the TryPop was called

vars == <<max_size, this_head, moved_to, size, priority, data, nodeLevel, inserting, next, mark,
          numNodes, th, pushed, pushRet, popCalls, popped, incs, decs,
          snap, gated, solo>>

objects == <<max_size, this_head, moved_to>>
nodeFields == <<priority, data, nodeLevel>>
hist == <<pushed, pushRet, popCalls, popped, incs, decs, snap, gated>>

\* ------------------------------------------------------------ Node (Node.hpp)
\* The links of a node: one atomic word (reference, mark) per level.
AllNodes == Nodes \cup {head}

GetNextPointer(n, l) == next[n][l]
GetNextPointerAndMark(n, l) == <<next[n][l], mark[n][l]>>
GetPriority(n) == priority[n]
GetData(n) == data[n]
GetLevel(n) == nodeLevel[n]
IsInserting(n) == inserting[n]

\* CompareExchange(level, expected, desired): strong CAS of the pair
\* (expected, unmarked) -> (desired, unmarked); the value is its success.
CompareExchange(n, l, expected) == next[n][l] = expected /\ ~mark[n][l]
StoreNext(n, l, desired) == [next EXCEPT ![n][l] = desired]

\* TestAndSetMark(level, expected): CAS (expected, unmarked) -> (expected, marked)
TestAndSetMark(n, l, expected) == next[n][l] = expected /\ ~mark[n][l]
\* SetNextMark(level): sets the mark bit and keeps the reference
SetNextMark(n, l) == [mark EXCEPT ![n][l] = TRUE]

\* ------------------------------------------------------------ thread locals
NoVector == [l \in Levels |-> Null]
IdleLocals ==
  [pc |-> "idle", priority |-> 0, data |-> 0, new_node |-> Null,
   predecessors |-> NoVector, successors |-> NoVector,
   level |-> 0, plevel |-> 0, predecessor |-> Null, current |-> Null,
   successor |-> Null, first |-> Null, ret |-> "none"]

\* The locals of a search are dead once it returns.
EndSearch(s) == [s EXCEPT !.level = 0, !.predecessor = Null, !.current = Null,
                          !.successor = Null]
\* `predecessor = this->head; for (level = L; ...)`
\* (every entry of the two vectors is overwritten before the search returns)
BeginFindLast(s, ret) == [s EXCEPT !.pc = "FLP_LoadNext", !.ret = ret, !.level = L,
                                   !.predecessor = head, !.current = Null,
                                   !.successor = Null,
                                   !.predecessors = NoVector, !.successors = NoVector]
BeginFindFirst(s) == [s EXCEPT !.pc = "FF_LoadNext", !.level = L,
                               !.predecessor = head, !.current = Null,
                               !.successor = Null]

\* ---------------------------------------------------------------- Init
InitNodes ==
  /\ priority = [n \in AllNodes |-> 0]
  /\ data = [n \in AllNodes |-> 0]
  /\ nodeLevel = [n \in AllNodes |-> IF n = head THEN L + 1 ELSE 0]
  /\ inserting = [n \in AllNodes |-> FALSE]
  /\ next = [n \in AllNodes |-> [l \in Levels |-> Null]]
  /\ mark = [n \in AllNodes |-> [l \in Levels |-> FALSE]]
  /\ numNodes = 0

\* No queue has been made from this one
NoQueue == [made |-> "none", max_size |-> 0, head |-> Null, size |-> U32(0)]

InitRest ==
  /\ this_head = head
  /\ moved_to = NoQueue
  /\ size = U32(0)
  /\ th = [t \in Threads |-> IdleLocals]
  /\ pushed = <<>>
  /\ pushRet = 0
  /\ popCalls = 0
  /\ popped = <<>>
  /\ incs = 0
  /\ decs = 0
  /\ snap = [t \in Threads |-> {}]
  /\ gated = [t \in Threads |-> FALSE]
  /\ solo = {}

\* Queue(): max_size = 0, the unbounded queue
Init == max_size = 0 /\ InitNodes /\ InitRest

\* ------------------------------------------------------------------ Push
\* Thread t takes a step that leaves its locals as s.  (A TryPop is alone
\* from its call on, until another thread takes a step.)
Set(t, s) ==
  /\ th' = [th EXCEPT ![t] = s]
  /\ solo' = IF s.pc \in {"FF_LoadNext", "FF_LoadMark", "FF_Snip"}
               THEN IF th[t].pc = "idle" THEN {t} ELSE solo \cap {t}
               ELSE {}
PushCallsMade == Len(pushed)

\* (the gate tested with > where the code has >=)
WaitPasses_OffByOne == max_size = 0 \/ ~U32Geq(size, max_size + 1)
\* Wait(): whether the gate lets the caller through
WaitPasses == max_size = 0 \/ ~U32Geq(size, max_size)

\* A call of Push(priority) or Push(priority, data); the data is a tag that
\* is unique to the call.  The node is constructed here, with the level that
\* GenerateRandomLevel() draws: no other thread can see the node before it is
\* published, so it does not matter that the code constructs it after Wait().
PushCall(t, p, new_level) ==
  /\ th[t].pc = "idle"
  /\ PushCallsMade < MaxPush
  /\ LET n == numNodes + 1
     IN /\ numNodes' = n
        /\ priority' = [priority EXCEPT ![n] = p]
        /\ data' = [data EXCEPT ![n] = PushCallsMade + 1]
        /\ nodeLevel' = [nodeLevel EXCEPT ![n] = new_level]
        /\ inserting' = [inserting EXCEPT ![n] = TRUE]
        /\ Set(t, [th[t] EXCEPT !.pc = "Wait", !.priority = p,
                                !.data = PushCallsMade + 1, !.new_node = n])
  /\ pushed' = Append(pushed, <<p, PushCallsMade + 1>>)
  /\ gated' = [gated EXCEPT ![t] = max_size > 0 /\ pushRet >= max_size /\ decs = 0]
  /\ UNCHANGED <<objects, size, next, mark,
                 pushRet, popCalls, popped, incs, decs, snap>>

\* Wait() reads size until it is below max_size; then Push starts its search
Wait(t) ==
  /\ th[t].pc = "Wait"
  /\ WaitPasses
  /\ Set(t, BeginFindLast(th[t], "Push_Publish"))
  /\ UNCHANGED <<objects, size, nodeFields, inserting, next, mark, numNodes, hist>>

\* (the comparison turned around)
WalksPast_Reversed(cur, p) == GetPriority(cur) > p
\* `current->GetPriority() < priority`: the walk goes past current
WalksPast(cur, p) == GetPriority(cur) < p

\* FindLastOfPriority: the end of one iteration of `for (level = L; level >= 0;
\* --level)`: predecessors[level] and successors[level] are stored; after
\* level 0 the search returns to the place in Push that called it.
FLP_Store(s, pred, cur) ==
  LET r == [s EXCEPT !.predecessors[s.level] = pred, !.successors[s.level] = cur]
  IN IF s.level = 0
       THEN EndSearch([r EXCEPT !.pc = s.ret, !.ret = "none"])
       ELSE [r EXCEPT !.pc = "FLP_LoadNext", !.level = s.level - 1,
                      !.predecessor = pred, !.current = Null, !.successor = Null]

\* `current = predecessor->GetNextPointer(level); while (current)`
FLP_LoadNext(t) ==
  /\ th[t].pc = "FLP_LoadNext"
  /\ LET s == th[t]
         cur == GetNextPointer(s.predecessor, s.level)
     IN Set(t, IF cur = Null THEN FLP_Store(s, s.predecessor, Null)
                ELSE [s EXCEPT !.pc = "FLP_LoadMark", !.current = cur])
  /\ UNCHANGED <<objects, size, nodeFields, inserting, next, mark, numNodes, hist>>

\* `std::tie(successor, marked) = current->GetNextPointerAndMark(level)` and,
\* when the link is not marked, the comparison that follows it
FLP_LoadMark(t) ==
  /\ th[t].pc = "FLP_LoadMark"
  /\ LET s == th[t]
         sm == GetNextPointerAndMark(s.current, s.level)
     IN Set(t, IF sm[2] THEN [s EXCEPT !.pc = "FLP_Snip", !.successor = sm[1]]
                ELSE IF WalksPast(s.current, s.priority)
                  THEN IF sm[1] = Null
                         THEN FLP_Store(s, s.current, Null)
                         ELSE [s EXCEPT !.predecessor = s.current, !.current = sm[1],
                                        !.successor = Null]
                  ELSE FLP_Store(s, s.predecessor, s.current))
  /\ UNCHANGED <<objects, size, nodeFields, inserting, next, mark, numNodes, hist>>

\* (the marked node unlinked with a plain store in place of the CAS)
FLP_Snip_Blind(t) ==
  /\ th[t].pc = "FLP_Snip"
  /\ LET s == th[t]
     IN /\ next' = StoreNext(s.predecessor, s.level, s.successor)
        /\ Set(t, IF s.successor = Null
                    THEN FLP_Store(s, s.predecessor, Null)
                    ELSE [s EXCEPT !.pc = "FLP_LoadMark",
                                   !.current = s.successor, !.successor = Null])
  /\ UNCHANGED <<objects, size, nodeFields, inserting, mark, numNodes, hist>>
\* `snip = predecessor->CompareExchange(level, current, successor)`: a failure
\* restarts the search from head, a success moves on to the successor
FLP_Snip(t) ==
  /\ th[t].pc = "FLP_Snip"
  /\ LET s == th[t]
     IN IF CompareExchange(s.predecessor, s.level, s.current)
          THEN /\ next' = StoreNext(s.predecessor, s.level, s.successor)
               /\ Set(t, IF s.successor = Null
                           THEN FLP_Store(s, s.predecessor, Null)
                           ELSE [s EXCEPT !.pc = "FLP_LoadMark",
                                          !.current = s.successor, !.successor = Null])
          ELSE /\ next' = next
               /\ Set(t, BeginFindLast(s, s.ret))
  /\ UNCHANGED <<objects, size, nodeFields, inserting, mark, numNodes, hist>>

\* (the stores into the new node left out)
SetNexts_Forgotten(s) == next
\* (the predecessors stored where the successors belong)
SetNexts_ToPredecessors(s) ==
  [next EXCEPT ![s.new_node] =
     [l \in Levels |-> IF l < GetLevel(s.new_node) THEN s.predecessors[l] ELSE @[l]]]
\* `new_node->SetNext(level, successors[level])` for level < new_level
SetNexts(s) ==
  [next EXCEPT ![s.new_node] =
     [l \in Levels |-> IF l < GetLevel(s.new_node) THEN s.successors[l] ELSE @[l]]]

\* (the level not advanced after its CAS succeeded)
Push_Linked_SameLevel(s, lv) ==
  IF lv + 1 < GetLevel(s.new_node)
    THEN [s EXCEPT !.pc = "Push_LinkUpper", !.plevel = lv]
    ELSE [s EXCEPT !.pc = "Push_SetDoneInserting", !.plevel = 0,
                   !.predecessors = NoVector, !.successors = NoVector]
\* After the CAS at a level succeeded: the next level to link, or the end
Push_Linked(s, lv) ==
  IF lv + 1 < GetLevel(s.new_node)
    THEN [s EXCEPT !.pc = "Push_LinkUpper", !.plevel = lv + 1]
    ELSE [s EXCEPT !.pc = "Push_SetDoneInserting", !.plevel = 0,
                   !.predecessors = NoVector, !.successors = NoVector]

\* (the node published with a plain store in place of the CAS)
Push_Publish_Blind(t) ==
  /\ th[t].pc = "Push_Publish"
  /\ LET s == th[t]
     IN /\ next' = [SetNexts(s) EXCEPT ![s.predecessors[0]][0] = s.new_node]
        /\ Set(t, Push_Linked(s, 0))
  /\ UNCHANGED <<objects, size, nodeFields, inserting, mark, numNodes, hist>>
\* The stores into the unpublished node and the bottom-level publishing CAS
\* `predecessors[0]->CompareExchange(0, successors[0], new_node)`
Push_Publish(t) ==
  /\ th[t].pc = "Push_Publish"
  /\ LET s == th[t]
     IN IF CompareExchange(s.predecessors[0], 0, s.successors[0])
          THEN /\ next' = [SetNexts(s) EXCEPT ![s.predecessors[0]][0] = s.new_node]
               /\ Set(t, Push_Linked(s, 0))
          ELSE /\ next' = SetNexts(s)
               /\ Set(t, BeginFindLast(s, "Push_Publish"))
  /\ UNCHANGED <<objects, size, nodeFields, inserting, mark, numNodes, hist>>

\* `predecessors[level]->CompareExchange(level, successors[level], new_node)`
\* for level >= 1; a failure runs FindLastOfPriority again and retries the level
Push_LinkUpper(t) ==
  /\ th[t].pc = "Push_LinkUpper"
  /\ LET s == th[t]
         lv == s.plevel
     IN IF CompareExchange(s.predecessors[lv], lv, s.successors[lv])
          THEN /\ next' = StoreNext(s.predecessors[lv], lv, s.new_node)
               /\ Set(t, Push_Linked(s, lv))
          ELSE /\ next' = next
               /\ Set(t, BeginFindLast(s, "Push_LinkUpper"))
  /\ UNCHANGED <<objects, size, nodeFields, inserting, mark, numNodes, hist>>

\* (the inserting flag never cleared)
Push_SetDoneInserting_Forgotten(t) ==
  /\ th[t].pc = "Push_SetDoneInserting"
  /\ inserting' = inserting
  /\ Set(t, [th[t] EXCEPT !.pc = "Push_IncSize"])
  /\ UNCHANGED <<objects, size, nodeFields, next, mark, numNodes, hist>>
\* `new_node->SetDoneInserting()`
Push_SetDoneInserting(t) ==
  /\ th[t].pc = "Push_SetDoneInserting"
  /\ inserting' = [inserting EXCEPT ![th[t].new_node] = FALSE]
  /\ Set(t, [th[t] EXCEPT !.pc = "Push_IncSize"])
  /\ UNCHANGED <<objects, size, nodeFields, next, mark, numNodes, hist>>

\* `this->size++` and the return of Push
Push_IncSize(t) ==
  /\ th[t].pc = "Push_IncSize"
  /\ size' = U32Inc(size)
  /\ incs' = incs + 1
  /\ pushRet' = pushRet + 1
  /\ gated' = [gated EXCEPT ![t] = FALSE]
  /\ Set(t, IdleLocals)
  /\ UNCHANGED <<objects, nodeFields, inserting, next, mark, numNodes,
                 pushed, popCalls, popped, decs, snap>>

\* ---------------------------------------------------------------- TryPop
\* The nodes on the level-l chain that starts at head.next[l]
RECURSIVE ChainFrom(_, _, _)
ChainFrom(n, l, fuel) ==
  IF n = Null \/ fuel = 0 THEN <<>>
  ELSE <<n>> \o ChainFrom(next[n][l], l, fuel - 1)
Chain(l) == ChainFrom(next[head][l], l, MaxPush + 1)
Range(q) == {q[i] : i \in 1..Len(q)}
Reachable(l) == Range(Chain(l))

\* A return of TryPop with the value false
PopReturnsFalse(t) ==
  /\ Set(t, IdleLocals)
  /\ snap' = [snap EXCEPT ![t] = {}]

\* A call of TryPop: `SPtr first = this->FindFirst()`
TryPopCall(t) ==
  /\ th[t].pc = "idle"
  /\ popCalls' = popCalls + 1
  /\ Set(t, BeginFindFirst(th[t]))
  /\ UNCHANGED <<objects, size, nodeFields, inserting, next, mark, numNodes,
                 pushed, pushRet, popped, incs, decs, snap, gated>>

\* (a null link at any level taken for the empty queue)
FF_LoadNext_EarlyEmpty(t) ==
  /\ th[t].pc = "FF_LoadNext"
  /\ LET s == th[t]
         cur == GetNextPointer(s.predecessor, s.level)
     IN IF cur # Null
          THEN /\ Set(t, [s EXCEPT !.pc = "FF_LoadMark", !.current = cur])
               /\ snap' = [snap EXCEPT ![t] = IF s.level = 0 THEN Reachable(0) ELSE @]
          ELSE PopReturnsFalse(t)
  /\ UNCHANGED <<objects, size, nodeFields, inserting, next, mark, numNodes,
                 pushed, pushRet, popCalls, popped, incs, decs, gated>>
\* FindFirst: `current = predecessor->GetNextPointer(level)`; a null link
\* at level 0 returns the empty pointer and TryPop returns false
FF_LoadNext(t) ==
  /\ th[t].pc = "FF_LoadNext"
  /\ LET s == th[t]
         cur == GetNextPointer(s.predecessor, s.level)
     IN IF cur # Null
          THEN /\ Set(t, [s EXCEPT !.pc = "FF_LoadMark", !.current = cur])
               /\ snap' = [snap EXCEPT ![t] = IF s.level = 0 THEN Reachable(0) ELSE @]
          ELSE IF s.level = 0
            THEN PopReturnsFalse(t)
            ELSE /\ Set(t, [s EXCEPT !.level = s.level - 1])
                 /\ UNCHANGED snap
  /\ UNCHANGED <<objects, size, nodeFields, inserting, next, mark, numNodes,
                 pushed, pushRet, popCalls, popped, incs, decs, gated>>

\* (FindFirst returning the node after the one it found)
FF_Return_Successor(s) ==
  IF s.level = 0
    THEN EndSearch([s EXCEPT !.pc = "TryPop_IsInserting",
                             !.first = IF next[s.current][0] = Null THEN s.current
                                       ELSE next[s.current][0]])
    ELSE [s EXCEPT !.pc = "FF_LoadNext", !.level = s.level - 1, !.current = Null,
                   !.successor = Null]
\* FindFirst returns current at level 0; TryPop goes on with it
FF_Return(s) ==
  IF s.level = 0
    THEN EndSearch([s EXCEPT !.pc = "TryPop_IsInserting", !.first = s.current])
    ELSE [s EXCEPT !.pc = "FF_LoadNext", !.level = s.level - 1, !.current = Null,
                   !.successor = Null]

\* `std::tie(successor, marked) = current->GetNextPointerAndMark(level)`
FF_LoadMark(t) ==
  /\ th[t].pc = "FF_LoadMark"
  /\ LET s == th[t]
         sm == GetNextPointerAndMark(s.current, s.level)
     IN Set(t, IF sm[2] THEN [s EXCEPT !.pc = "FF_Snip", !.successor = sm[1]]
                ELSE FF_Return(s))
  /\ UNCHANGED <<objects, size, nodeFields, inserting, next, mark, numNodes, hist>>

\* (the marked node walked past and left linked)
FF_Snip_NoUnlink(t) ==
  /\ th[t].pc = "FF_Snip"
  /\ LET s == th[t]
     IN /\ next' = next
        /\ IF s.successor # Null
             THEN /\ Set(t, [s EXCEPT !.pc = "FF_LoadMark",
                                      !.current = s.successor, !.successor = Null])
                  /\ snap' = [snap EXCEPT ![t] =
                                IF s.level = 0 THEN Range(ChainFrom(s.successor, 0, MaxPush + 1))
                                ELSE @]
             ELSE IF s.level = 0
               THEN PopReturnsFalse(t)
               ELSE /\ Set(t, FF_Return([s EXCEPT !.current = Null]))
                    /\ UNCHANGED snap
  /\ UNCHANGED <<objects, size, nodeFields, inserting, mark, numNodes,
                 pushed, pushRet, popCalls, popped, incs, decs, gated>>
\* `snip = predecessor->CompareExchange(level, current, successor)`
FF_Snip(t) ==
  /\ th[t].pc = "FF_Snip"
  /\ LET s == th[t]
     IN IF CompareExchange(s.predecessor, s.level, s.current)
          THEN /\ next' = StoreNext(s.predecessor, s.level, s.successor)
               /\ IF s.successor # Null
                    THEN /\ Set(t, [s EXCEPT !.pc = "FF_LoadMark",
                                             !.current = s.successor, !.successor = Null])
                         /\ snap' = [snap EXCEPT ![t] =
                                       IF s.level = 0 THEN Range(ChainFrom(s.successor, 0, MaxPush + 1))
                                       ELSE @]
                              ELSE IF s.level = 0
                      THEN PopReturnsFalse(t)
                      ELSE /\ Set(t, FF_Return([s EXCEPT !.current = Null]))
                           /\ UNCHANGED snap
          ELSE /\ next' = next
               /\ Set(t, BeginFindFirst(s))
               /\ UNCHANGED snap
  /\ UNCHANGED <<objects, size, nodeFields, inserting, mark, numNodes,
                 pushed, pushRet, popCalls, popped, incs, decs, gated>>

\* (the marking loop started one level too low)
TopLevel_OneBelow(n) == GetLevel(n) - 2
\* The first level TryPop marks: `level = first->GetLevel() - 1`
TopLevel(n) == GetLevel(n) - 1

\* (the inserting flag not looked at)
TryPop_IsInserting_Unchecked(t) ==
  /\ th[t].pc = "TryPop_IsInserting"
  /\ LET s == th[t]
     IN Set(t, IF TopLevel(s.first) >= 1
                 THEN [s EXCEPT !.pc = "TryPop_MarkUpper",
                                !.level = TopLevel(s.first)]
                 ELSE [s EXCEPT !.pc = "TryPop_LoadSuccessor"])
  /\ UNCHANGED <<objects, size, nodeFields, inserting, next, mark, numNodes, hist>>
\* `if (first->IsInserting()) return false;`
TryPop_IsInserting(t) ==
  /\ th[t].pc = "TryPop_IsInserting"
  /\ LET s == th[t]
     IN IF IsInserting(s.first)
          THEN PopReturnsFalse(t)
          ELSE /\ Set(t, IF TopLevel(s.first) >= 1
                           THEN [s EXCEPT !.pc = "TryPop_MarkUpper",
                                          !.level = TopLevel(s.first)]
                           ELSE [s EXCEPT !.pc = "TryPop_LoadSuccessor"])
               /\ UNCHANGED snap
  /\ UNCHANGED <<objects, size, nodeFields, inserting, next, mark, numNodes,
                 pushed, pushRet, popCalls, popped, incs, decs, gated>>

\* (the marking loop run down to level 0)
TryPop_MarkUpper_ToBottom(t) ==
  /\ th[t].pc = "TryPop_MarkUpper"
  /\ LET s == th[t]
     IN /\ mark' = SetNextMark(s.first, s.level)
        /\ Set(t, IF s.level - 1 >= 0
                    THEN [s EXCEPT !.level = s.level - 1]
                    ELSE [s EXCEPT !.pc = "TryPop_LoadSuccessor", !.level = 0])
  /\ UNCHANGED <<objects, size, nodeFields, inserting, next, numNodes, hist>>
\* `first->SetNextMark(level)` for level = GetLevel() - 1 down to 1
TryPop_MarkUpper(t) ==
  /\ th[t].pc = "TryPop_MarkUpper"
  /\ LET s == th[t]
     IN /\ mark' = SetNextMark(s.first, s.level)
        /\ Set(t, IF s.level - 1 >= 1
                    THEN [s EXCEPT !.level = s.level - 1]
                    ELSE [s EXCEPT !.pc = "TryPop_LoadSuccessor", !.level = 0])
  /\ UNCHANGED <<objects, size, nodeFields, inserting, next, numNodes, hist>>

\* `successor = first->GetNextPointer(0)`
TryPop_LoadSuccessor(t) ==
  /\ th[t].pc = "TryPop_LoadSuccessor"
  /\ Set(t, [th[t] EXCEPT !.pc = "TryPop_Claim",
                          !.successor = GetNextPointer(th[t].first, 0)])
  /\ UNCHANGED <<objects, size, nodeFields, inserting, next, mark, numNodes, hist>>

\* (the claim made with SetNextMark, and its outcome not tested)
TryPop_Claim_Untested(t) ==
  /\ th[t].pc = "TryPop_Claim"
  /\ mark' = SetNextMark(th[t].first, 0)
  /\ Set(t, [th[t] EXCEPT !.pc = "TryPop_DecSize",
                          !.priority = GetPriority(th[t].first),
                          !.data = GetData(th[t].first)])
  /\ UNCHANGED <<objects, size, nodeFields, inserting, next, numNodes, hist>>

\* `priority = first->GetPriority(); data = first->GetData();
\*  bool success = first->TestAndSetMark(0, successor)`
TryPop_Claim(t) ==
  /\ th[t].pc = "TryPop_Claim"
  /\ LET s == th[t]
     IN IF TestAndSetMark(s.first, 0, s.successor)
          THEN /\ mark' = SetNextMark(s.first, 0)
               /\ Set(t, [s EXCEPT !.pc = "TryPop_DecSize",
                                   !.priority = GetPriority(s.first),
                                   !.data = GetData(s.first)])
               /\ UNCHANGED snap
          ELSE /\ mark' = mark
               /\ PopReturnsFalse(t)
  /\ UNCHANGED <<objects, size, nodeFields, inserting, next, numNodes,
                 pushed, pushRet, popCalls, popped, incs, decs, gated>>

\* `this->size--; return true;`
TryPop_DecSize(t) ==
  /\ th[t].pc = "TryPop_DecSize"
  /\ size' = U32Dec(size)
  /\ decs' = decs + 1
  /\ popped' = Append(popped, [node |-> th[t].first, priority |-> th[t].priority,
                               data |-> th[t].data])
  /\ snap' = [snap EXCEPT ![t] = {}]
  /\ Set(t, IdleLocals)
  /\ UNCHANGED <<objects, nodeFields, inserting, next, mark, numNodes,
                 pushed, pushRet, popCalls, incs, gated>>

\* ------------------------------------------------------------------ move
\* Queue(Queue&& other) and Queue::operator=(Queue&& other): the constructed
\* or assigned queue takes other's max_size, head and size, and
\* `other.head = nullptr`.  The queue of this model is `other`.
Queue_Move(made) ==
  /\ \A t \in Threads : th[t].pc = "idle"
  /\ this_head # Null
  /\ moved_to' = [made |-> made, max_size |-> max_size, head |-> this_head,
                  size |-> size]
  /\ this_head' = Null
  /\ UNCHANGED <<max_size, size, nodeFields, inserting, next, mark, numNodes,
                 th, hist, solo>>

\* KVQueue(KVQueue&& other) and KVQueue::operator=(KVQueue&& other): the same,
\* and `other.size = 0`
KVQueue_Move(made) ==
  /\ \A t \in Threads : th[t].pc = "idle"
  /\ this_head # Null
  /\ moved_to' = [made |-> made, max_size |-> max_size, head |-> this_head,
                  size |-> size]
  /\ this_head' = Null
  /\ size' = U32(0)
  /\ UNCHANGED <<max_size, nodeFields, inserting, next, mark, numNodes,
                 th, hist, solo>>

\* ------------------------------------------------------ specifications
\* The steps inside Push, FindLastOfPriority, FindFirst and TryPop
PushStep(t) ==
  \/ Wait(t)
  \/ FLP_LoadNext(t)
  \/ FLP_LoadMark(t)
  \/ Push_Publish(t)
  \/ Push_LinkUpper(t)
  \/ Push_SetDoneInserting(t)
  \/ Push_IncSize(t)

PopStep(t) ==
  \/ FF_LoadNext(t)
  \/ FF_LoadMark(t)
  \/ FF_Snip(t)
  \/ TryPop_IsInserting(t)
  \/ TryPop_MarkUpper(t)
  \/ TryPop_LoadSuccessor(t)
  \/ TryPop_Claim(t)
  \/ TryPop_DecSize(t)

Step(t) ==
  \/ \E p \in 1..MaxPrio, new_level \in 1..(L + 1) : PushCall(t, p, new_level)
  \/ popCalls < MaxPop /\ TryPopCall(t)
  \/ PushStep(t)
  \/ FLP_Snip(t)
  \/ PopStep(t)

\* Any number of threads call Push and TryPop on an unbounded queue.
Next == \E t \in Threads : Step(t)
Spec == Init /\ [][Next]_vars

\* The same threads on a bounded queue, Queue(max_size) with max_size > 0.
InitBounded == max_size \in 1..MaxMaxSize /\ InitNodes /\ InitRest
SpecBounded == InitBounded /\ [][Next]_vars

\* A finite set of calls on an unbounded queue, every thread scheduled
\* weakly fairly: a thread inside a call is not left forever without a step.
\* (Whether a thread makes another call is up to the thread.)
Running(t) == PushStep(t) \/ FLP_Snip(t) \/ PopStep(t)
FairStep(t) ==
  \/ \E p \in 1..MaxPrio, new_level \in 1..(L + 1) :
       PushCallsMade < MaxFairPush /\ PushCall(t, p, new_level)
  \/ popCalls < MaxFairPop /\ TryPopCall(t)
  \/ Running(t)
FairNext == \E t \in Threads : FairStep(t)
SpecFair == Init /\ [][FairNext]_vars /\ \A t \in Threads : WF_vars(Running(t))

\* Consumers that retry: a thread that is not inside a call calls TryPop
\* again, any number of times (the history counter popCalls stops at MaxPop).
TryPopAgain(t) ==
  /\ th[t].pc = "idle"
  /\ popCalls' = IF popCalls < MaxPop THEN popCalls + 1 ELSE popCalls
  /\ Set(t, BeginFindFirst(th[t]))
  /\ UNCHANGED <<objects, size, nodeFields, inserting, next, mark, numNodes,
                 pushed, pushRet, popped, incs, decs, snap, gated>>
RetryStep(t) ==
  \/ \E p \in 1..MaxPrio, new_level \in 1..(L + 1) :
       PushCallsMade < MaxFairPush /\ PushCall(t, p, new_level)
  \/ TryPopAgain(t)
  \/ Running(t)
RetryNext == \E t \in Threads : RetryStep(t)
\* Finitely many Push calls; every thread is scheduled weakly fairly inside
\* its calls, and a thread left idle calls TryPop.
SpecRetry ==
  /\ Init /\ [][RetryNext]_vars
  /\ \A t \in Threads : WF_vars(Running(t)) /\ WF_vars(TryPopAgain(t))

\* One thread pushes its keys onto an empty unbounded queue and then calls
\* TryPop once more than it pushed.  (No search of a Push crosses a marked
\* node in this program, so FindLastOfPriority never snips.)
DrainNext ==
  \/ \E p \in 1..MaxPrio, new_level \in 1..(L + 1) :
       popCalls = 0 /\ PushCall(SeqThread, p, new_level)
  \/ popCalls <= PushCallsMade /\ TryPopCall(SeqThread)
  \/ PushStep(SeqThread)
  \/ PopStep(SeqThread)
SpecDrain == Init /\ [][DrainNext]_vars

\* One thread pushes and pops as above; when no call is running the queue
\* is moved from, by the move constructor or the move assignment of its
\* class, and is not used again.
MoveNext ==
  \/ this_head # Null /\ DrainNext
  \/ Queue_Move("Queue(Queue&&)")
  \/ Queue_Move("Queue::operator=(Queue&&)")
  \/ KVQueue_Move("KVQueue(KVQueue&&)")
  \/ KVQueue_Move("KVQueue::operator=(KVQueue&&)")
SpecMove == Init /\ [][MoveNext]_vars

\* ------------------------------------------------------------- vocabulary
Quiescent == \A t \in Threads : th[t].pc = "idle"
\* GetSize(): `this->size.load()`
GetSize == size
\* The entries in the queue: on the level-0 chain and unmarked at level 0
Live == {n \in Reachable(0) : ~mark[n][0]}
LiveChain == SelectSeq(Chain(0), LAMBDA n : ~mark[n][0])
Entry(n) == <<priority[n], data[n]>>
Count(q, e) == Cardinality({i \in DOMAIN q : q[i] = e})
PoppedEntries == [i \in DOMAIN popped |-> <<popped[i].priority, popped[i].data>>]
LiveEntries == [i \in DOMAIN LiveChain |-> Entry(LiveChain[i])]

\* ------------------------------------------------------------------ C1
\* C1: single-threaded drain law.  After one thread pushed its keys onto an
\* empty unbounded queue, its next n TryPop calls all return true, yield the
\* pushed entries (each value with the priority it was pushed with), each
\* once, in non-decreasing order of priority; the (n+1)-th returns false and
\* GetSize() is 0 then.
DrainLaw ==
  (th[SeqThread].pc = "idle" /\ popCalls > 0) =>
    LET n == Len(pushed)
        k == IF popCalls < n THEN popCalls ELSE n
    IN /\ Len(popped) = k
       /\ \A i, j \in 1..Len(popped) :
            i < j => /\ popped[i].priority <= popped[j].priority
                     /\ popped[i].data # popped[j].data
       /\ \A e \in Range(PoppedEntries) : Count(PoppedEntries, e) <= Count(pushed, e)
       /\ popCalls > n =>
            /\ \A e \in Range(pushed) : Count(PoppedEntries, e) = Count(pushed, e)
            /\ GetSize = U32(0)

DrainWitness ==
  /\ th[SeqThread].pc = "idle"
  /\ popCalls = Len(pushed) + 1
  /\ Len(popped) >= 3
  /\ \E i, j \in 1..Len(pushed) : i < j /\ pushed[i][1] = pushed[j][1]
  /\ \E i, j \in 1..Len(pushed) : i < j /\ pushed[i][1] > pushed[j][1]

\* ------------------------------------------------------------------ C2
\* C2: no entry is lost or duplicated.  Once every call has returned, the
\* entries returned by the successful TryPop calls together with the entries
\* still in the queue are, as a multiset, the entries pushed.
NoEntryLostOrDuplicated ==
  Quiescent =>
    LET out == PoppedEntries \o LiveEntries
    IN \A e \in Range(pushed) \cup Range(out) : Count(out, e) = Count(pushed, e)

\* both threads are back from their calls; some entries were popped while
\* others, pushed with the same and with another priority, stay
NoEntryLostWitness ==
  /\ Quiescent
  /\ Len(popped) >= 1
  /\ Cardinality(Live) >= 2
  /\ popCalls > Len(popped)

\* ------------------------------------------------------------------ C3
\* C3: at most one TryPop returns true for a node: of the threads that took
\* the same node from FindFirst, one at most gets past the level-0 claim.
Claimed(t) == th[t].pc = "TryPop_DecSize"
AtMostOnePopPerNode ==
  /\ \A i, j \in 1..Len(popped) : i # j => popped[i].node # popped[j].node
  /\ \A t \in Threads : Claimed(t) =>
       /\ \A i \in 1..Len(popped) : popped[i].node # th[t].first
       /\ \A u \in Threads \ {t} : Claimed(u) => th[u].first # th[t].first

\* two poppers hold the same node, which has marked upper levels; one has
\* won the claim and the other is about to try it
AtMostOnePopWitness ==
  \E t, u \in Threads :
    /\ t # u
    /\ Claimed(t)
    /\ th[u].pc = "TryPop_Claim"
    /\ th[u].first = th[t].first
    /\ GetLevel(th[t].first) >= 2

\* ------------------------------------------------------------------ C4
\* The step in which thread t's level-0 claim succeeds
ClaimSucceeds(t) == th[t].pc = "TryPop_Claim" /\ th'[t].pc = "TryPop_DecSize"
\* The other entries a pop of node n competes with: in the queue and no
\* longer inserting
Settled(n) == {m \in Live \ {n} : ~inserting[m]}

\* C4 as claimed: when the level-0 claim of a TryPop succeeds, the node it
\* pops has a priority no greater than that of any other entry then in the
\* queue and no longer inserting.
PopsLeastAtClaim ==
  [][\A t \in Threads : ClaimSucceeds(t) =>
        \A m \in Settled(th[t].first) : priority[th[t].first] <= priority[m]]_vars

\* C4, amended: the same, for the entries that were already on the level-0
\* chain when FindFirst took the node from head's level-0 link.
PopsLeastOfObserved ==
  [][\A t \in Threads : ClaimSucceeds(t) =>
        \A m \in Settled(th[t].first) \cap snap[t] :
           priority[th[t].first] <= priority[m]]_vars

\* a pop has claimed its node while an entry it had seen and a smaller one
\* it had not seen are both in the queue and no longer inserting
PopsLeastWitness ==
  \E t \in Threads :
    /\ Claimed(t)
    /\ \E m \in Settled(th[t].first) \cap snap[t] :
         priority[m] >= priority[th[t].first]
    /\ \E m \in Settled(th[t].first) \ snap[t] :
         priority[m] < priority[th[t].first]

\* ------------------------------------------------------------------ C5
\* C5: the size counter never goes negative: in every state the size--
\* performed are at most the size++ performed, and the counter has not
\* wrapped around.
SizeNeverNegative == decs <= incs /\ size # U32Dec(U32(0))

\* ------------------------------------------------------------------ C6
\* C6: once every call has returned, GetSize() is the number of Push calls
\* that returned minus the number of TryPop calls that returned true, and
\* it is the number of entries in the queue.
SizeExactAtQuiescence ==
  Quiescent => /\ pushRet >= Len(popped)
               /\ GetSize = U32(pushRet - Len(popped))
               /\ GetSize = U32(Cardinality(Live))

SizeExactWitness ==
  /\ Quiescent
  /\ pushRet >= 2
  /\ Len(popped) >= 1
  /\ popCalls > Len(popped)
  /\ GetSize = U32(1)

\* ------------------------------------------------------------------ C7
\* C7: the gate of a bounded queue.  A Push called after max_size Push calls
\* returned, with no TryPop having succeeded, stays in Wait() - its node is
\* not on the level-0 chain and the call has not returned - as long as no
\* TryPop has decremented size.
GateBlocksWhenFull ==
  \A t \in Threads :
    (gated[t] /\ decs = 0) =>
       /\ th[t].pc = "Wait"
       /\ th[t].new_node \notin Reachable(0)

\* a Push waits at the gate of the full queue while a TryPop has claimed a
\* node and has not decremented size yet
GateBlocksWitness ==
  \E t, u \in Threads :
    /\ gated[t] /\ decs = 0 /\ th[t].pc = "Wait"
    /\ Claimed(u)
    /\ pushRet = max_size

\* ------------------------------------------------------------------ C8
\* C8: a bounded queue stays within its bound: the entries published at
\* level 0 and not claimed by a pop are at most max_size.
StaysWithinBound == max_size > 0 => Cardinality(Live) <= max_size

\* ------------------------------------------------------------------ C9
\* C9: a Push links its node after the entries of equal priority that are
\* on the level-0 chain, so that of two entries with equal priority the one
\* pushed first comes first on the chain and is popped first.
AppendsAfterEqualKeys ==
  /\ \A i, j \in 1..Len(Chain(0)) :
       (i < j /\ priority[Chain(0)[i]] = priority[Chain(0)[j]])
          => data[Chain(0)[i]] < data[Chain(0)[j]]
  /\ \A i, j \in 1..Len(popped) :
       (i < j /\ popped[i].priority = popped[j].priority)
          => popped[i].data < popped[j].data

\* ----------------------------------------------------------------- C10
\* C10: when a Push clears the inserting flag of its node, the node is
\* reachable from head at each of its levels.
FullyLinkedWhenDone ==
  [][\A t \in Threads :
       (th[t].pc = "Push_SetDoneInserting" /\ th'[t].pc = "Push_IncSize") =>
          \A l \in 0..(GetLevel(th[t].new_node) - 1) :
             th[t].new_node \in Reachable(l)]_vars

\* ----------------------------------------------------------------- C11
\* The program counters of a thread inside TryPop
PopPcs == {"FF_LoadNext", "FF_LoadMark", "FF_Snip", "TryPop_IsInserting",
           "TryPop_MarkUpper", "TryPop_LoadSuccessor", "TryPop_Claim",
           "TryPop_DecSize"}
\* Thread t takes a step of its TryPop
PopStepOf(t) == th[t].pc \in PopPcs /\ th'[t] # th[t]
\* The step in which thread t's TryPop returns false
ReturnsFalse(t) == PopStepOf(t) /\ th'[t].pc = "idle" /\ popped' = popped
Level0Marks == [n \in AllNodes |-> mark[n][0]]

\* C11: a TryPop that returns false (empty queue, first node inserting, or
\* claim lost) has changed neither size nor a level-0 mark nor the set of
\* entries in the queue.  Every step of a TryPop other than its successful
\* claim and the size-- after it leaves the three alone, and a TryPop that
\* made a successful claim does not return false.
FalsePopChangesNothing ==
  [][\A t \in Threads :
       /\ (PopStepOf(t) /\ ~ClaimSucceeds(t) /\ ~Claimed(t)) =>
             /\ size' = size
             /\ Level0Marks' = Level0Marks
             /\ Live' = Live
       /\ ReturnsFalse(t) => ~Claimed(t)]_vars

\* a pop that marked the upper level of its node is about to lose the claim
\* of the node to another pop, while a third entry is in the queue
FalsePopWitness ==
  \E t \in Threads :
    /\ th[t].pc = "TryPop_Claim"
    /\ ~TestAndSetMark(th[t].first, 0, th[t].successor)
    /\ GetLevel(th[t].first) >= 2
    /\ Live # {}

\* ----------------------------------------------------------------- C12
\* C12: after a queue was move-constructed or move-assigned from this one,
\* in the key-only and in the key/value class, this queue's head is null and
\* its size reads zero, and the new queue holds the former head and size
\* (the size that counted the entries on the chain of that head).
MoveEmptiesSource ==
  moved_to.made # "none" =>
     /\ this_head = Null
     /\ GetSize = U32(0)
     /\ moved_to.head = head
     /\ moved_to.size = U32(Cardinality(Live))
     /\ moved_to.max_size = max_size

\* ----------------------------------------------------------------- C13
\* C13: lock-free progress on an unbounded queue.  With finitely many calls
\* and every thread scheduled weakly fairly, every Push and every TryPop
\* that was called returns: a search restarts and a CAS is retried only
\* after a CAS of another thread has succeeded, which happens finitely often.
EveryCallReturns ==
  \A t \in Threads : (th[t].pc # "idle") ~> (th[t].pc = "idle")

\* a Push that found a marked node is about to fail its unlinking CAS and
\* restart its search, while the other thread is inside a call as well
EveryCallReturnsWitness ==
  \E t, u \in Threads :
    /\ t # u
    /\ th[t].pc = "FLP_Snip"
    /\ ~CompareExchange(th[t].predecessor, th[t].level, th[t].current)
    /\ th[u].pc # "idle"

\* ----------------------------------------------------------------- C14
\* Node n was published: the bottom-level CAS of its Push has succeeded
Published(n) ==
  /\ n \in 1..numNodes
  /\ \A t \in Threads :
       th[t].new_node = n =>
          /\ th[t].pc \notin {"Wait", "Push_Publish"}
          /\ th[t].ret # "Push_Publish"
NoRepeat(q) == \A i, j \in 1..Len(q) : i < j => q[i] # q[j]
Sorted(q) == \A i, j \in 1..Len(q) : i < j => priority[q[i]] <= priority[q[j]]

\* C14: in every state the level-0 chain from head is sorted by priority
\* (non-decreasing), holds no node twice, and holds every published node
\* that is not marked at level 0.
LevelZeroChainSound ==
  /\ Sorted(Chain(0))
  /\ NoRepeat(Chain(0))
  /\ \A n \in Nodes : (Published(n) /\ ~mark[n][0]) => n \in Reachable(0)

\* two entries with a popped node, not yet unlinked, between them on the
\* level-0 chain, while a thread is inside a call
LevelZeroChainWitness ==
  /\ Len(Chain(0)) = 3
  /\ ~mark[Chain(0)[1]][0] /\ mark[Chain(0)[2]][0] /\ ~mark[Chain(0)[3]][0]
  /\ \A n \in Nodes : Published(n)
  /\ ~Quiescent

\* ----------------------------------------------------------------- C15
\* C15 as claimed: skip-list containment.  In every state, every node that
\* is reachable from head at a level above 0 is reachable from head at
\* level 0.
SkipListContainment ==
  \A l \in 1..L : Reachable(l) \subseteq Reachable(0)

\* The place of x in q, a sequence that holds x once
Pos(q, x) == CHOOSE i \in 1..Len(q) : q[i] = x
\* The members of a are, in their order, members of b (b repeats nothing)
IsSubSeq(a, b) ==
  /\ Range(a) \subseteq Range(b)
  /\ \A i, j \in 1..Len(a) : i < j => Pos(b, a[i]) < Pos(b, a[j])

\* C15, amended: the same for the nodes that are not marked at level 0: at
\* every level above 0 the nodes of the chain that are unmarked at level 0
\* are, in their order, a sub-sequence of the level-0 chain.
LiveContainment ==
  \A l \in 1..L :
     IsSubSeq(SelectSeq(Chain(l), LAMBDA n : ~mark[n][0]), Chain(0))

\* the level-1 chain holds an entry and, before it, a popped node that a
\* search has already unlinked from level 0
LiveContainmentWitness ==
  /\ Len(Chain(1)) >= 2
  /\ Chain(1)[1] \notin Reachable(0)
  /\ Chain(1)[2] \in Live

\* ----------------------------------------------------------------- C16
\* C16: marks are monotone and freeze the link.  Once the link of a node at
\* a level is marked, no step clears the mark or changes the successor the
\* link holds.
MarkedLinkFrozen ==
  [][\A n \in AllNodes, l \in Levels :
       mark[n][l] => (mark'[n][l] /\ next'[n][l] = next[n][l])]_vars

\* a Push is about to try its publishing CAS on a predecessor that was
\* popped, and whose marked link still holds a successor, after the search
MarkedLinkWitness ==
  \E t \in Threads :
    /\ th[t].pc = "Push_Publish"
    /\ th[t].predecessors[0] # head
    /\ mark[th[t].predecessors[0]][0]
    /\ next[th[t].predecessors[0]][0] # Null

\* ----------------------------------------------------------------- C17
\* C17: no node is marked while it is being inserted: in every state a node
\* whose inserting flag is true has no marked link at any level.
InsertingNodeUnmarked ==
  \A n \in Nodes : inserting[n] => \A l \in Levels : ~mark[n][l]

\* FindFirst gave a TryPop a published node with an upper level whose Push
\* has not cleared the inserting flag: the TryPop is about to return false
InsertingNodeWitness ==
  \E t \in Threads :
    /\ th[t].pc = "TryPop_IsInserting"
    /\ inserting[th[t].first]
    /\ GetLevel(th[t].first) >= 2
    /\ th[t].first \in Reachable(1)

\* ----------------------------------------------------------------- C18
\* C18: links advance through the priority order at every level: in every
\* state, at each level 0..L, the walk along next[l] from head meets no node
\* twice (no cycle) and meets the priorities in non-decreasing order.
LinksAdvance ==
  \A l \in Levels :
     /\ Len(Chain(l)) <= numNodes
     /\ NoRepeat(Chain(l))
     /\ Sorted(Chain(l))

\* three nodes on the level-0 chain, two of them with different priorities
\* on the level-1 chain as well, while a thread is inside a call
LinksAdvanceWitness ==
  /\ Len(Chain(0)) = 3
  /\ Len(Chain(1)) >= 2
  /\ priority[Chain(1)[1]] < priority[Chain(1)[2]]
  /\ ~Quiescent

\* ----------------------------------------------------------------- C19
\* The step in which the FindFirst of thread t's TryPop returns null
EmptyExit(t) == th[t].pc \in {"FF_LoadNext", "FF_Snip"} /\ th'[t].pc = "idle"

\* C19: a published entry is seen by a later pop.  A TryPop takes the empty
\* exit only at a moment when every published node is marked at level 0; so
\* a TryPop called after the publishing CAS of a node N, with N unmarked at
\* level 0 until the TryPop returns, does not get null from FindFirst.
PublishedEntryObserved ==
  [][\A t \in Threads :
       EmptyExit(t) => \A n \in Nodes : Published(n) => mark[n][0]]_vars

\* the FindFirst of a TryPop has unlinked a popped node and returned an
\* entry that is still in the queue and whose Push has finished
PublishedEntryWitness ==
  \E t \in Threads :
    /\ th[t].pc = "TryPop_IsInserting"
    /\ th[t].first \in Live
    /\ ~inserting[th[t].first]
    /\ \E k \in Nodes : mark[k][0] /\ \A l \in Levels : k \notin Reachable(l)

\* ----------------------------------------------------------------- C20
\* The step in which the FindFirst of thread t's TryPop returns
FindFirstReturns(t) ==
  /\ th[t].pc \in {"FF_LoadNext", "FF_LoadMark", "FF_Snip"}
  /\ th'[t].pc \in {"TryPop_IsInserting", "idle"}
\* What it returns: a node, or the empty pointer
Returned(t) == IF th'[t].pc = "idle" THEN Null ELSE th'[t].first

\* C20: FindFirst unlinks the marked nodes it crosses.  When a TryPop has run
\* with no step of another thread since its call, then at the moment its
\* FindFirst returns, head's link at every level is null or leads to a node
\* whose link at that level is unmarked, and the node returned is the first
\* of the level-0 chain (the empty pointer if the chain is empty).
FindFirstUnlinks ==
  [][\A t \in Threads :
       (t \in solo /\ FindFirstReturns(t)) =>
          /\ \A l \in Levels :
               next'[head][l] = Null \/ ~mark'[next'[head][l]][l]
          /\ Returned(t) = next'[head][0]]_vars

\* a FindFirst that has run alone has unlinked a popped node at level 1 and
\* is about to unlink it at level 0, where an entry follows it; the other
\* thread is inside a Push
FindFirstUnlinksWitness ==
  \E t, u \in Threads :
    /\ t \in solo
    /\ th[t].pc = "FF_Snip" /\ th[t].level = 0
    /\ next[head][0] = th[t].current
    /\ GetLevel(th[t].current) >= 2 /\ th[t].current \notin Reachable(1)
    /\ th[t].successor # Null /\ ~mark[th[t].successor][0]
    /\ u # t /\ th[u].pc \in {"FLP_LoadNext", "FLP_LoadMark", "Push_Publish"}

\* ----------------------------------------------------------------- C21
\* C21: an entry in the queue is eventually popped by consumers that retry.
\* With finitely many Push calls, each finishing under weakly fair
\* scheduling, and consumers that keep calling TryPop: whenever an entry is
\* in the queue, a further TryPop eventually returns true.
LiveEntryEventuallyPopped ==
  \A k \in 0..MaxFairPush :
     (Live # {} /\ Len(popped) = k) ~> (Len(popped) > k)

\* no call is running; an entry is in the queue whose upper level was
\* marked by a TryPop that then lost its claim and returned false
LiveEntryWitness ==
  /\ Quiescent
  /\ \E n \in Live : GetLevel(n) >= 2 /\ mark[n][1]

\* ----------------------------------------------------------------- C22
\* C22: upper levels are marked before the bottom level: in every state a
\* node whose level-0 link is marked has the links of all its upper levels,
\* 1 to its height - 1, marked.
UpperMarkedBeforeBottom ==
  \A n \in Nodes :
     mark[n][0] => \A l \in 1..(GetLevel(n) - 1) : mark[n][l]

\* a popped node of height 2, and another node of height 2 that a TryPop
\* has marked at level 1 and not yet at level 0
UpperMarkedWitness ==
  \E n, m \in Nodes :
    /\ n # m
    /\ GetLevel(n) >= 2 /\ mark[n][0] /\ mark[n][1]
    /\ GetLevel(m) >= 2 /\ ~mark[m][0] /\ mark[m][1]

\* ----------------------------------------------------------------- C23
\* The step in which the linking CAS of thread t's Push succeeds at a level
\* above 0
LinkSucceeds(t) == th[t].pc = "Push_LinkUpper" /\ th'[t].pc # "FLP_LoadNext"

\* C23: the upper-level linking of Push drops no node from the index.  At
\* the moment the linking CAS at a level l >= 1 succeeds, putting the new
\* node in the place of the successor S in the predecessor's link, the new
\* node's own link at l holds S, and every node reachable from head at
\* level l before the CAS is reachable at level l after it.
UpperLinkKeepsIndex ==
  [][\A t \in Threads :
       LinkSucceeds(t) =>
          /\ next[th[t].new_node][th[t].plevel] = th[t].successors[th[t].plevel]
          /\ Reachable(th[t].plevel) \subseteq Reachable(th[t].plevel)']_vars

====
